---- MODULE Spec2Model ----
(***************************************************************************)
(* Model of cyber-tomato-cli: the PomodoroTimer session state machine of   *)
(* src/main.rs driven by main_loop, with the blocking audio playback of    *)
(* src/audio.rs.  Instants and Durations are whole milliseconds.           *)
(***************************************************************************)
EXTENDS Integers, Sequences, FiniteSets, TLC

\* ------------------------------------------------------------------ bounds

\* The clock advances by 0 or StepMillis between two reads of the poll loop.
StepMillis == 30000
\* The poll no longer waits once the clock has passed MaxTime.
MaxTime == 65000
\* Longest text the custom-input dialog is driven to.
MaxInputLen == 3
\* No completion check fires once this many sessions have been completed.
MaxCompleted == 2

TimeSteps == {0, StepMillis}

\* The frame-by-frame loop no longer waits once the clock has passed
\* MaxAudioTime.
MaxAudioTime == 6000
\* Remaining time of the session that is running when the frames begin.
LeadMillis == 1000

\* ------------------------------------------------------- program constants

DefaultWorkMins == 25
DefaultBreakMins == 5
SecsPerMin == 60
MillisPerSec == 1000
AnimationMillis == 10000
\* the timeout of event::poll
PollMillis == 100

\* Option::None of an Option<Instant>
None == -1

\* ------------------------------------------------------------------- audio

\* (frequency in centi-hertz, duration in ms); frequency 0 is a rest
WorkCompleteTones ==
    << <<176000, 100>>, <<88000, 100>>, <<44000, 150>>, <<22000, 200>> >>

BreakCompleteTones ==
    << <<22000, 150>>, <<44000, 150>>, <<88000, 150>>, <<176000, 300>>,
       <<0, 300>>,
       <<52325, 300>>, <<58733, 300>>, <<65925, 300>>, <<69846, 400>>,
       <<0, 100>>,
       <<78399, 300>>, <<88000, 300>>, <<98777, 300>>, <<104650, 500>>,
       <<0, 200>>,
       <<104650, 250>>, <<98777, 250>>, <<88000, 250>>, <<78399, 250>>,
       <<69846, 300>>, <<65925, 400>>,
       <<0, 150>>,
       <<52325, 200>>, <<65925, 200>>, <<78399, 200>>, <<104650, 300>>,
       <<117466, 200>>, <<131851, 600>> >>

RECURSIVE TotalMillis(_)
TotalMillis(tones) ==
    IF tones = << >> THEN 0 ELSE tones[1][2] + TotalMillis(Tail(tones))

\* sink.sleep_until_end(): the caller sleeps until every appended source has
\* been played, so the queue is empty when the call returns.
SleepUntilEnd(queued) == [waited |-> TotalMillis(queued), pending |-> 0]

\* the loop of play_audio: one source per tone, in the order of the tones; a
\* silent source exactly for a frequency of 0
AudioSources(tones) ==
    [i \in 1..Len(tones) |->
        [idx |-> i,
         wave |-> IF tones[i][1] = 0 THEN "Zero" ELSE "SquareWaveWithDecay",
         freq |-> tones[i][1], ms |-> tones[i][2]]]

\* AudioManager::play_audio.  device_ok: OutputStream::try_default and
\* Sink::try_new both succeeded.  The result records the sources appended,
\* their number, how long the caller was blocked and how many sources were
\* still queued when the call returned.
PlayAudio(tones, device_ok) ==
    IF device_ok
    THEN LET end == SleepUntilEnd(tones)
         IN  [sources |-> AudioSources(tones), appended |-> Len(tones),
              waited |-> end.waited, pending |-> end.pending]
    ELSE [sources |-> << >>, appended |-> 0, waited |-> 0, pending |-> 0]

\* mutant: the cue of the other kind is played
NotificationTonesSwapped(timer_type) ==
    IF timer_type = "Work" THEN BreakCompleteTones ELSE WorkCompleteTones

\* PomodoroTimer::play_notification: the cue of the kind that just completed
NotificationTones(timer_type) ==
    IF timer_type = "Work" THEN WorkCompleteTones ELSE BreakCompleteTones

\* ----------------------------------------------------------------- session

MinsToDuration(mins) == (mins * SecsPerMin) * MillisPerSec

\* mutant: elapsed is not reset to 0 (the session starts already elapsed)
StartTimerKeepsElapsed(timer_type, duration, t) ==
    [timer_type |-> timer_type, duration |-> duration, elapsed |-> duration,
     is_running |-> TRUE, start_time |-> t]

StartTimer(timer_type, duration, t) ==
    [timer_type |-> timer_type, duration |-> duration, elapsed |-> 0,
     is_running |-> TRUE, start_time |-> t]

\* mutant: pause forgets the time run since the last resume
PauseTimerDropsRun(s, t) ==
    IF s.is_running
    THEN [s EXCEPT !.is_running = FALSE, !.start_time = None]
    ELSE s

PauseTimer(s, t) ==
    IF s.is_running
    THEN [s EXCEPT !.elapsed = IF s.start_time # None
                                THEN @ + (t - s.start_time) ELSE @,
                   !.is_running = FALSE,
                   !.start_time = None]
    ELSE s

\* mutant: resume without the is_running guard
ResumeTimerUnguarded(s, t) ==
    [s EXCEPT !.is_running = TRUE, !.start_time = t]

ResumeTimer(s, t) ==
    IF ~s.is_running
    THEN [s EXCEPT !.is_running = TRUE, !.start_time = t]
    ELSE s

\* a toggle that can only pause
ToggleTimerOnlyPauses(s, t) == PauseTimer(s, t)

\* toggle_timer
ToggleTimer(s, t) ==
    IF s.is_running THEN PauseTimer(s, t) ELSE ResumeTimer(s, t)

\* first component of get_timer_progress
GetTimerProgress(s, t) ==
    IF s.is_running
    THEN IF s.start_time # None THEN s.elapsed + (t - s.start_time)
                                ELSE s.elapsed
    ELSE s.elapsed

IsTimerFinished(s, t) == GetTimerProgress(s, t) >= s.duration

\* mutant: the check forgets that the session may be paused
CompletionDueWhilePaused(s, t) == IsTimerFinished(s, t)

\* a check that counts only the time run since the last resume
CompletionDueSinceResume(s, t) ==
    s.is_running /\ s.start_time # None /\ t - s.start_time >= s.duration

\* the condition of main_loop's completion check
CompletionDue(s, t) == s.is_running /\ IsTimerFinished(s, t)

\* a remaining time that is subtracted without the comparison
RemainingUnchecked(s, t) == s.duration - GetTimerProgress(s, t)

\* ui: remaining time shown in the title and the countdown
Remaining(s, t) ==
    LET elapsed == GetTimerProgress(s, t)
    IN  IF s.duration > elapsed THEN s.duration - elapsed ELSE 0

\* mutant: the start instant survives the stop
StopTimerKeepsStart(s) == [s EXCEPT !.is_running = FALSE]

\* complete_session, the branch "_ =>": stop the timer
StopTimer(s) == [s EXCEPT !.is_running = FALSE, !.start_time = None]

\* mutant: the counter restarts at every completion
CountCompletionRestarts(n) == 1

\* complete_session: completed_sessions += 1
CountCompletion(n) == n + 1

\* a toggle that can only leave Auto
ToggleModeToManual(m) == "Manual"

\* toggle_mode
ToggleMode(m) == IF m = "Manual" THEN "Auto" ELSE "Manual"

\* ------------------------------------------------------------ custom input

Digits == <<"0", "1", "2", "3", "4", "5", "6", "7", "8", "9">>
DigitChars == {Digits[i] : i \in 1..Len(Digits)}
DigitValue(c) == (CHOOSE i \in 1..Len(Digits) : Digits[i] = c) - 1

\* the characters the dialog is driven with
TypedChars == {"1", ","}

\* A u32 is held as two 16-bit halves <<high, low>>, so that values up to
\* 2^32 - 1 and their overflow can be computed exactly.
U32Base == 65536
ZeroU32 == <<0, 0>>
U32Int(x) == x[1] * U32Base + x[2]

\* x * m + a on u32 for small m and a: the wrapped value, and whether the
\* exact result needed more than 32 bits
MulAddU32(x, m, a) ==
    LET low == x[2] * m + a
        high == x[1] * m + (low \div U32Base)
    IN  [overflow |-> high >= U32Base,
         value |-> <<high % U32Base, low % U32Base>>]

ParseFail == [ok |-> FALSE, value |-> ZeroU32]

\* a digit loop that wraps around instead of failing
RECURSIVE ParseDigitsWrapping(_, _)
ParseDigitsWrapping(str, acc) ==
    IF str = << >> THEN [ok |-> TRUE, value |-> acc]
    ELSE ParseDigitsWrapping(Tail(str),
                             MulAddU32(acc, 10, DigitValue(Head(str))).value)

\* the digit loop of str::parse::<u32>: checked multiply by 10 and add
RECURSIVE ParseDigits(_, _)
ParseDigits(str, acc) ==
    IF str = << >> THEN [ok |-> TRUE, value |-> acc]
    ELSE LET next == MulAddU32(acc, 10, DigitValue(Head(str)))
         IN  IF next.overflow THEN ParseFail
             ELSE ParseDigits(Tail(str), next.value)

\* str::parse::<u32> of a string the dialog can hold: Err when it is empty,
\* has a character that is not a digit, or denotes a number above 2^32 - 1
ParseU32(str) ==
    IF str = << >> \/ \E i \in 1..Len(str) : str[i] \notin DigitChars
    THEN ParseFail
    ELSE ParseDigits(str, ZeroU32)

CommaPositions(str) == {i \in 1..Len(str) : str[i] = ","}

\* Option<u32>
NoneU32 == [some |-> FALSE, value |-> ZeroU32]
SomeU32(x) == [some |-> TRUE, value |-> x]

ParseErr == [ok |-> FALSE, work_mins |-> ZeroU32, break_mins |-> NoneU32]

\* a parse that reads the text up to its first comma and no further
ParseCustomInputWorkOnly(input) ==
    LET commas == CommaPositions(input)
        k == IF commas = {} THEN Len(input) + 1
             ELSE CHOOSE i \in commas : \A j \in commas : i <= j
        work_mins == ParseU32(SubSeq(input, 1, k - 1))
    IN  IF ~work_mins.ok \/ work_mins.value = ZeroU32 THEN ParseErr
        ELSE [ok |-> TRUE, work_mins |-> work_mins.value,
              break_mins |-> NoneU32]

\* parse_custom_input: Ok((work_mins, break_mins)), break_mins = None when it
\* was not given, or Err
ParseCustomInput(input) ==
    LET commas == CommaPositions(input)
    IN  IF commas # {}
        THEN IF Cardinality(commas) # 1 THEN ParseErr
             ELSE LET k == CHOOSE i \in commas : TRUE
                      work_mins == ParseU32(SubSeq(input, 1, k - 1))
                      break_mins == ParseU32(SubSeq(input, k + 1, Len(input)))
                  IN  IF ~work_mins.ok \/ ~break_mins.ok
                      THEN ParseErr
                      ELSE IF work_mins.value = ZeroU32
                              \/ break_mins.value = ZeroU32 THEN ParseErr
                      ELSE [ok |-> TRUE, work_mins |-> work_mins.value,
                            break_mins |-> SomeU32(break_mins.value)]
        ELSE LET work_mins == ParseU32(input)
             IN  IF ~work_mins.ok THEN ParseErr
                 ELSE IF work_mins.value = ZeroU32 THEN ParseErr
                 ELSE [ok |-> TRUE, work_mins |-> work_mins.value,
                       break_mins |-> NoneU32]

\* start_custom_session: mins * 60 in u32.  With overflow checks (a debug
\* build) an overflowing product panics; without them it wraps.
CustomSecs(mins) == MulAddU32(mins, SecsPerMin, 0)

\* Duration::from_secs of a u32 number of seconds, for values the model's
\* clock can hold
SecsToDuration(secs) == U32Int(secs) * MillisPerSec

\* --------------------------------------------------------------- animation

\* (frequency in centi-hertz, duration in ms) of start_mario_theme
MarioTheme ==
    << <<65925, 150>>, <<65925, 150>>, <<0, 150>>, <<65925, 150>>, <<0, 150>>,
       <<52325, 150>>, <<65925, 150>>, <<0, 150>>, <<78399, 150>>, <<0, 450>>,
       <<39200, 150>>, <<0, 450>>, <<52325, 150>>, <<0, 300>>, <<39200, 150>>,
       <<0, 300>>, <<32963, 150>>, <<0, 300>>, <<44000, 150>>, <<0, 150>>,
       <<49388, 150>>, <<0, 150>>, <<46616, 150>>, <<44000, 150>>, <<0, 150>>,
       <<39200, 200>>, <<65925, 200>>, <<78399, 200>>, <<88000, 150>>,
       <<0, 150>>, <<69846, 150>>, <<78399, 150>>, <<0, 150>>, <<65925, 150>>,
       <<0, 150>>, <<52325, 150>>, <<58733, 150>>, <<49388, 150>>,
       <<0, 300>> >>

JumpTones == << <<52325, 100>>, <<65925, 100>> >>

BreakTones ==
    << <<104650, 80>>, <<0, 20>>, <<117466, 80>>, <<0, 20>>, <<131851, 120>> >>

PowerupTones ==
    << <<39200, 100>>, <<52325, 100>>, <<65925, 100>>, <<78399, 100>>,
       <<104650, 100>>, <<131851, 300>> >>

Effects == {"jump", "brick", "powerup"}

\* the tones of a request to one of the animation's sinks
RequestTones(from) ==
    CASE from = "theme" -> MarioTheme
      [] from = "jump" -> JumpTones
      [] from = "brick" -> BreakTones
      [] from = "powerup" -> PowerupTones

\* A Sink: the sources appended and not yet known to be played out, oldest
\* first, and the instant the oldest of them began to play.  The mixer plays
\* one source to its end and then the next.
EmptySink == [queue |-> << >>, head_start |-> None]

\* what is left of a sink's queue at instant t
RECURSIVE Drain(_, _)
Drain(sink, t) ==
    IF sink.queue = << >> THEN EmptySink
    ELSE IF sink.head_start + Head(sink.queue).ms <= t
    THEN Drain([queue |-> Tail(sink.queue),
                head_start |-> sink.head_start + Head(sink.queue).ms], t)
    ELSE sink

\* Sink::append of the sources, one after the other, at instant t: they go
\* behind what is still queued and start at once when nothing is
AppendAll(sink, sources, t) ==
    LET left == Drain(sink, t)
    IN  IF sources = << >> THEN left
        ELSE [queue |-> left.queue \o sources,
              head_start |-> IF left.queue = << >> THEN t
                             ELSE left.head_start]

\* the loop of start_mario_theme: a MarioTone for a frequency above 0, a
\* silent source otherwise.  from, at and idx name the request, its instant
\* and the tone's place in it.
ThemeSources(t) ==
    [i \in 1..Len(MarioTheme) |->
        [from |-> "theme", at |-> t, idx |-> i,
         wave |-> IF MarioTheme[i][1] > 0 THEN "MarioTone" ELSE "Zero",
         freq |-> MarioTheme[i][1], ms |-> MarioTheme[i][2]]]

\* mutant: the effect's tones are appended last to first
PlaySoundEffectReversed(from, tones, t) ==
    [i \in 1..Len(tones) |->
        LET k == Len(tones) + 1 - i
        IN  [from |-> from, at |-> t, idx |-> k,
             wave |-> IF tones[k][1] = 0 THEN "Zero" ELSE "MarioTone",
             freq |-> tones[k][1], ms |-> tones[k][2]]]

\* play_sound_effect: one source per tone in the order of the tones, a silent
\* source exactly for a frequency of 0
PlaySoundEffect(from, tones, t) ==
    [i \in 1..Len(tones) |->
        [from |-> from, at |-> t, idx |-> i,
         wave |-> IF tones[i][1] = 0 THEN "Zero" ELSE "MarioTone",
         freq |-> tones[i][1], ms |-> tones[i][2]]]

\* MarioAnimation::new.  Lengths and speeds are in halves of the source's
\* units (20.0 is 40), so that every value of the run is a whole number.
\* device_ok: the output stream could be opened, so _stream, music_sink and
\* sfx_sink are Some; otherwise all three are None (has_sinks is FALSE and
\* the two sinks stay empty).  The particles are not modelled.
NewAnimation(device_ok) ==
    [cat_x |-> 40, cat_y |-> 20, cat_vx |-> 4, cat_vy |-> 0,
     tomato_x |-> 240, tomato_y |-> 150, tomato_vy |-> 0,
     tomato_hit |-> FALSE, tomato_exploding |-> FALSE,
     bricks |-> [i \in 1..5 |->
                    [x |-> 240 + (i - 3) * 16, y |-> 150 - 4,
                     visible |-> TRUE, breaking |-> FALSE]],
     bricks_hit |-> FALSE, animation_frame |-> 0,
     started |-> FALSE, start_time |-> None, ground_y |-> 20,
     has_sinks |-> device_ok, music_sink |-> EmptySink, sfx_sink |-> EmptySink,
     music_started |-> FALSE]

\* mutant: the theme is appended whether or not there is a music sink
StartMarioThemeUnguarded(a, t) ==
    IF a.music_started THEN a
    ELSE [a EXCEPT !.music_started = TRUE,
                   !.music_sink = AppendAll(@, ThemeSources(t), t)]

\* start_mario_theme: once per animation, appended to the music sink
StartMarioTheme(a, t) ==
    IF a.music_started THEN a
    ELSE IF a.has_sinks
    THEN [a EXCEPT !.music_started = TRUE,
                   !.music_sink = AppendAll(@, ThemeSources(t), t)]
    ELSE [a EXCEPT !.music_started = TRUE]

\* MarioAnimation::start, with start_mario_theme
StartAnimation(a, t) ==
    StartMarioTheme([a EXCEPT !.started = TRUE, !.start_time = t], t)

\* mutant: the jump effect goes to the music sink
PlayJumpSoundOnMusic(a, t) ==
    IF a.has_sinks
    THEN [a EXCEPT !.music_sink =
                       AppendAll(@, PlaySoundEffect("jump", JumpTones, t), t)]
    ELSE a

\* play_jump_sound, play_brick_break_sound, play_powerup_sound: the effect is
\* appended to the effects sink when there is one
PlayJumpSound(a, t) ==
    IF a.has_sinks
    THEN [a EXCEPT !.sfx_sink =
                       AppendAll(@, PlaySoundEffect("jump", JumpTones, t), t)]
    ELSE a

PlayBrickBreakSound(a, t) ==
    IF a.has_sinks
    THEN [a EXCEPT !.sfx_sink =
                       AppendAll(@, PlaySoundEffect("brick", BreakTones, t), t)]
    ELSE a

PlayPowerupSound(a, t) ==
    IF a.has_sinks
    THEN [a EXCEPT !.sfx_sink =
                       AppendAll(@, PlaySoundEffect("powerup", PowerupTones,
                                                    t), t)]
    ELSE a

\* mutant: a hit that does not record that the bricks were hit
HitBricksUnmarked(a, t) ==
    LET b == PlayBrickBreakSound(a, t)
    IN  [b EXCEPT !.bricks = [i \in 1..5 |->
                                 [b.bricks[i] EXCEPT !.visible = FALSE,
                                                     !.breaking = TRUE]],
                  !.cat_vy = -4]

\* hit_bricks: every brick breaks and the cat bounces back
HitBricks(a, t) ==
    LET b == PlayBrickBreakSound([a EXCEPT !.bricks_hit = TRUE], t)
    IN  [b EXCEPT !.bricks = [i \in 1..5 |->
                                 [b.bricks[i] EXCEPT !.visible = FALSE,
                                                     !.breaking = TRUE]],
                  !.cat_vy = -4]

\* explode_tomato
ExplodeTomato(a, t) ==
    PlayPowerupSound([a EXCEPT !.tomato_hit = TRUE,
                               !.tomato_exploding = TRUE], t)

\* the cat is inside the collision box below brick i
UnderBrick(a, i) ==
    /\ a.bricks[i].visible
    /\ a.cat_x > a.bricks[i].x - 10
    /\ a.cat_x < a.bricks[i].x + 10
    /\ a.cat_y >= a.bricks[i].y - 20
    /\ a.cat_y <= a.bricks[i].y - 6

\* MarioAnimation::update at instant t
Update(a, t) ==
    IF ~a.started THEN a
    ELSE
    LET moved == [a EXCEPT !.animation_frame = @ + 1,
                           !.cat_x = @ + a.cat_vx, !.cat_y = @ + a.cat_vy]
        fallen == IF moved.cat_y > moved.ground_y
                  THEN [moved EXCEPT !.cat_vy = @ - 3]
                  ELSE [moved EXCEPT !.cat_y = moved.ground_y,
                                     !.cat_vy = IF @ < 0 THEN 0 ELSE @]
        jumped == IF /\ ~fallen.bricks_hit
                     /\ fallen.cat_x > fallen.tomato_x - 60
                     /\ fallen.cat_x < fallen.tomato_x - 10
                     /\ fallen.cat_y <= fallen.ground_y + 2
                  THEN PlayJumpSound([fallen EXCEPT !.cat_vy = 30], t)
                  ELSE fallen
        hit == IF /\ ~jumped.bricks_hit
                  /\ jumped.cat_vy > 0
                  /\ \E i \in 1..5 : UnderBrick(jumped, i)
               THEN HitBricks(jumped, t)
               ELSE jumped
        dropped == IF hit.bricks_hit /\ ~hit.tomato_hit
                   THEN IF hit.tomato_y > hit.ground_y + 10
                        THEN [hit EXCEPT !.tomato_vy = @ + 1,
                                         !.tomato_y = @ - (hit.tomato_vy + 1)]
                        ELSE LET landed == [hit EXCEPT !.tomato_y =
                                                           hit.ground_y + 10]
                             IN  IF ~landed.tomato_exploding
                                 THEN ExplodeTomato(landed, t)
                                 ELSE landed
                   ELSE hit
    IN  IF dropped.bricks_hit /\ dropped.cat_x < 400
        THEN [dropped EXCEPT !.cat_vx = 3]
        ELSE dropped

\* MarioAnimation::is_finished
IsFinished(a, t) ==
    IF a.start_time # None THEN t - a.start_time > AnimationMillis ELSE FALSE

\* ------------------------------------------------------------ tone sources

\* An f32 is man * 2^exp with 2^23 <= man < 2^24, or zero with man = 0.
F32Bits == 24
ZeroF32 == [man |-> 0, exp |-> 0]

RECURSIVE BitLen(_)
BitLen(n) == IF n = 0 THEN 0 ELSE 1 + BitLen(n \div 2)

\* round to nearest, ties to even: q is the kept part, rest2 / (2 * whole)
\* the fraction that was cut off
RoundEven(q, rest2, whole) ==
    IF rest2 > whole \/ (rest2 = whole /\ q % 2 = 1) THEN q + 1 ELSE q

\* a rounding that carried into a 25th bit
NormalizeF32(man, exp) ==
    IF man = 2^F32Bits THEN [man |-> 2^(F32Bits - 1), exp |-> exp + 1]
    ELSE [man |-> man, exp |-> exp]

\* `n as f32` of an unsigned integer
IntToF32(n) ==
    LET bits == BitLen(n)
        cut == bits - F32Bits
    IN  IF n = 0 THEN ZeroF32
        ELSE IF cut <= 0
        THEN [man |-> n * 2^(F32Bits - bits), exp |-> cut]
        ELSE NormalizeF32(RoundEven(n \div 2^cut, 2 * (n % 2^cut), 2^cut),
                          cut)

\* binary long division until the quotient has 24 bits
RECURSIVE DivBits(_, _, _, _)
DivBits(q, r, d, e) ==
    IF q >= 2^(F32Bits - 1) THEN [q |-> q, r |-> r, e |-> e]
    ELSE IF 2 * r >= d THEN DivBits(2 * q + 1, 2 * r - d, d, e + 1)
    ELSE DivBits(2 * q, 2 * r, d, e + 1)

\* x / y in f32, y not zero
DivF32(x, y) ==
    IF x.man = 0 THEN ZeroF32
    ELSE LET res == DivBits(x.man \div y.man, x.man % y.man, y.man, 0)
         IN  NormalizeF32(RoundEven(res.q, 2 * res.r, y.man),
                          x.exp - y.exp - res.e)

\* the mantissa without its trailing zero bits
RECURSIVE StripF32(_)
StripF32(x) ==
    IF x.man # 0 /\ x.man % 2 = 0
    THEN StripF32([man |-> x.man \div 2, exp |-> x.exp + 1])
    ELSE x

\* x * y in f32, for a y of at most 18 significant bits; the exact product
\* is top * 4096 + low
MulF32(x, y) ==
    IF x.man = 0 \/ y.man = 0 THEN ZeroF32
    ELSE LET ys == StripF32(y)
             lowpart == (x.man % 4096) * ys.man
             top == (x.man \div 4096) * ys.man + lowpart \div 4096
             low == lowpart % 4096
             cut == BitLen(top) - 12
             kept == IF cut <= 12
                     THEN top * 2^(12 - cut) + low \div 2^cut
                     ELSE top \div 2^(cut - 12)
             rest == IF cut <= 12
                     THEN low % 2^cut
                     ELSE (top % 2^(cut - 12)) * 4096 + low
         IN  NormalizeF32(RoundEven(kept, 2 * rest, 2^cut),
                          x.exp + ys.exp + cut)

\* `x as usize` of an f32 that is not negative: the fraction is dropped
TruncF32(x) ==
    IF x.exp >= 0 THEN x.man * 2^x.exp
    ELSE IF 0 - x.exp >= F32Bits THEN 0
    ELSE x.man \div 2^(0 - x.exp)

NanosPerMilli == 1000000
NanosPerSec == 1000000000
SampleRate == 44100

\* Duration::as_secs_f32 of a Duration of less than one second, whose secs
\* field is 0: nanos as f32 / NANOS_PER_SEC as f32
AsSecsF32(ms) == DivF32(IntToF32(ms * NanosPerMilli), IntToF32(NanosPerSec))

\* total_samples of SquareWaveWithDecay::new and MarioTone::new
TotalSamples(ms, sample_rate) ==
    TruncF32(MulF32(AsSecsF32(ms), IntToF32(sample_rate)))

ToneWaves == {"SquareWaveWithDecay", "MarioTone"}

\* SquareWaveWithDecay::new and MarioTone::new
NewToneSource(wave, ms) ==
    [wave |-> wave, ms |-> ms, sample_rate |-> SampleRate, sample_idx |-> 0,
     total_samples |-> TotalSamples(ms, SampleRate)]

\* a source that yields one sample more than it holds
NextSampleOneMore(src) ==
    IF src.sample_idx > src.total_samples
    THEN [source |-> src, some |-> FALSE]
    ELSE [source |-> [src EXCEPT !.sample_idx = @ + 1], some |-> TRUE]

\* Iterator::next of a tone source: the source after the call, and whether
\* the call returned Some(sample)
NextSample(src) ==
    IF src.sample_idx >= src.total_samples
    THEN [source |-> src, some |-> FALSE]
    ELSE [source |-> [src EXCEPT !.sample_idx = @ + 1], some |-> TRUE]

\* current_frame_len and current_span_len
CurrentFrameLen(src) == src.total_samples - src.sample_idx

\* ---------------------------------------------------------- time as text

\* the decimal digits of an unsigned integer, as format! writes them
RECURSIVE Decimal(_)
Decimal(n) ==
    IF n < 10 THEN << Digits[n + 1] >>
    ELSE Append(Decimal(n \div 10), Digits[(n % 10) + 1])

\* a format spec without a width
ZeroPadNone(str) == str

\* the format spec {:02}: zeros on the left up to a width of two
ZeroPad2(str) ==
    IF Len(str) < 2 THEN <<"0">> \o str ELSE str

\* Duration::as_secs
AsSecs(ms) == ms \div MillisPerSec

\* PomodoroTimer::format_duration
FormatDuration(ms) ==
    LET total_seconds == AsSecs(ms)
        minutes == total_seconds \div SecsPerMin
        seconds == total_seconds % SecsPerMin
    IN  ZeroPad2(Decimal(minutes)) \o <<":">> \o ZeroPad2(Decimal(seconds))

\* ------------------------------------------------------------------- state

VARIABLES
    now,                    \* the monotonic clock read by Instant::now()
    pc,                     \* main_loop: "poll", "update" or "exited"
    key,                    \* the key event the latest iteration has read
    current_session,        \* PomodoroSession
    mode,                   \* TimerMode
    completed_sessions,
    show_controls_popup,
    show_custom_input,
    custom_input,
    show_mario_animation,
    mario_animation,
    audio_device,           \* whether the default output device can be opened
    custom_work_duration,
    custom_break_duration,
    last_play,              \* what the latest play_audio call did
    last_completed,         \* kind completed by the latest completion check
    interval_completions,   \* complete_session calls since the last start_timer
    custom_result,          \* outcome of a dialog submission in full u32
    sink_lock,              \* the caller holding the effects sink's Mutex
    callers,                \* threads calling the effect functions
    lock_order,             \* the callers in the order they took the Mutex
    rendering,              \* a tone, the source rendered from it, its calls
    time_display            \* a Duration and the text format_duration gives

vars == <<now, pc, key, current_session, mode, completed_sessions,
          show_controls_popup, show_custom_input, custom_input,
          show_mario_animation, mario_animation, audio_device,
          custom_work_duration,
          custom_break_duration, last_play, last_completed,
          interval_completions, custom_result, sink_lock, callers,
          lock_order, rendering, time_display>>

NoPlay == [sources |-> << >>, appended |-> 0, waited |-> 0, pending |-> 0]

\* the Mutex is free
NoHolder == 0

\* no dialog submission has been computed
NoResult ==
    [outcome |-> "none", work_mins |-> ZeroU32, break_mins |-> NoneU32,
     work_secs |-> ZeroU32, break_secs |-> ZeroU32]

\* no tone source has been built
NoToneSource ==
    [wave |-> "None", ms |-> 0, sample_rate |-> 0, sample_idx |-> 0,
     total_samples |-> 0]

\* no tone is being rendered
NoTone ==
    [wave |-> "None", ms |-> 0, source |-> NoToneSource, yielded |-> 0,
     ended |-> 0]

\* no duration is being formatted
NoDisplay == [duration |-> 0, text |-> << >>]

\* the current_session of PomodoroTimer::new
NewSessionRunning ==
    [timer_type |-> "Work", duration |-> MinsToDuration(DefaultWorkMins),
     elapsed |-> 0, is_running |-> TRUE, start_time |-> 0]

NewSession ==
    [timer_type |-> "Work", duration |-> MinsToDuration(DefaultWorkMins),
     elapsed |-> 0, is_running |-> FALSE, start_time |-> None]

\* PomodoroTimer::new
Init ==
    /\ now = 0
    /\ pc = "poll"
    /\ key = "none"
    /\ current_session = NewSession
    /\ mode = "Auto"
    /\ completed_sessions = 0
    /\ show_controls_popup = FALSE
    /\ show_custom_input = FALSE
    /\ custom_input = << >>
    /\ show_mario_animation = FALSE
    /\ audio_device \in BOOLEAN
    /\ mario_animation = NewAnimation(audio_device)
    /\ custom_work_duration = MinsToDuration(DefaultWorkMins)
    /\ custom_break_duration = MinsToDuration(DefaultBreakMins)
    /\ last_play = NoPlay
    /\ last_completed = "None"
    /\ interval_completions = 0
    /\ custom_result = NoResult
    /\ sink_lock = NoHolder
    /\ callers = << >>
    /\ lock_order = << >>
    /\ rendering = NoTone
    /\ time_display = NoDisplay

\* variables that only the other specifications change
HarnessUnchanged ==
    UNCHANGED <<custom_result, sink_lock, callers, lock_order, rendering,
                time_display>>

\* ------------------------------------------------- main_loop: poll and keys

\* terminal.draw and event::poll: the clock moves on by dt before the event
\* (or the timeout) is handled
WaitUntil(dt, horizon) ==
    /\ pc = "poll"
    /\ dt = 0 \/ now + dt <= horizon
    /\ now' = now + dt

Wait(dt) == WaitUntil(dt, MaxTime)

TimerUnchanged ==
    UNCHANGED <<current_session, mode, completed_sessions,
                custom_work_duration, custom_break_duration,
                interval_completions>>
UiUnchanged ==
    UNCHANGED <<show_controls_popup, show_custom_input, custom_input,
                show_mario_animation, mario_animation>>
AudioUnchanged == UNCHANGED <<audio_device, last_play, last_completed>>

\* poll timed out, or the event read was not a key event
NoKeyEventIn(steps, horizon) ==
    \E dt \in steps :
        /\ WaitUntil(dt, horizon)
        /\ HarnessUnchanged
        /\ pc' = "update"
        /\ key' = "none"
        /\ TimerUnchanged /\ UiUnchanged /\ AudioUnchanged

NoKeyEvent == NoKeyEventIn(TimeSteps, MaxTime)

\* keys told apart while the animation is showing; "enter" is Enter or Space
AnimationKeys == {"esc", "enter", "other"}

\* what `key` keeps of a key whose iteration ended with `continue`: the
\* keys in kept, no other
KeptKey(k, kept) == IF k \in kept THEN k ELSE "none"

\* an animation branch in which Esc leaves the loop
AnimationKeyInEscBreaks(steps, horizon, kept) ==
    \E dt \in steps, k \in AnimationKeys :
        /\ WaitUntil(dt, horizon)
        /\ HarnessUnchanged
        /\ show_mario_animation
        /\ show_mario_animation' = (k \notin {"esc", "enter"})
        /\ pc' = IF k = "esc" THEN "exited" ELSE "poll"
        /\ key' = KeptKey(k, kept)
        /\ TimerUnchanged /\ AudioUnchanged
        /\ UNCHANGED <<show_controls_popup, show_custom_input, custom_input,
                       mario_animation>>

\* a key while the animation is showing: Esc, Enter and Space dismiss it,
\* every key ends the iteration with `continue`
AnimationKeyIn(steps, horizon, kept) ==
    \E dt \in steps, k \in AnimationKeys :
        /\ WaitUntil(dt, horizon)
        /\ HarnessUnchanged
        /\ show_mario_animation
        /\ show_mario_animation' = (k \notin {"esc", "enter"})
        /\ pc' = "poll"
        /\ key' = KeptKey(k, kept)
        /\ TimerUnchanged /\ AudioUnchanged
        /\ UNCHANGED <<show_controls_popup, show_custom_input, custom_input,
                       mario_animation>>

AnimationKey == AnimationKeyIn(TimeSteps, MaxTime, {})

DialogOpen == ~show_mario_animation /\ show_custom_input
\* a main match that is reached while the dialog is open
MainScreenUnderDialog == ~show_mario_animation

MainScreen == ~show_mario_animation /\ ~show_custom_input

\* 'x' in the dialog: hide_custom_input_dialog
DialogCancel ==
    \E dt \in TimeSteps :
        /\ Wait(dt)
        /\ HarnessUnchanged
        /\ DialogOpen
        /\ show_custom_input' = FALSE
        /\ custom_input' = << >>
        /\ pc' = "poll"
        /\ key' = "none"
        /\ TimerUnchanged /\ AudioUnchanged
        /\ UNCHANGED <<show_controls_popup, show_mario_animation,
                       mario_animation>>

\* start_custom_session
StartCustomSession(work_mins, break_mins, t) ==
    /\ custom_work_duration' = SecsToDuration(CustomSecs(work_mins).value)
    /\ custom_break_duration' =
           IF break_mins.some
           THEN SecsToDuration(CustomSecs(break_mins.value).value)
           ELSE MinsToDuration(DefaultBreakMins)
    /\ current_session' = StartTimer("Work", custom_work_duration', t)
    /\ interval_completions' = 0

\* Enter in the dialog: parse_and_start_custom_timer
DialogEnterIn(kept) ==
    \E dt \in TimeSteps :
        /\ Wait(dt)
        /\ HarnessUnchanged
        /\ DialogOpen
        /\ pc' = "poll"
        /\ key' = KeptKey("enter", kept)
        /\ LET result == ParseCustomInput(custom_input)
           IN  IF custom_input = << >>
               THEN /\ show_custom_input' = FALSE
                    /\ custom_input' = << >>
                    /\ UNCHANGED <<current_session, custom_work_duration,
                                   custom_break_duration, interval_completions>>
               ELSE IF result.ok
               THEN /\ show_custom_input' = FALSE
                    /\ custom_input' = << >>
                    /\ StartCustomSession(result.work_mins, result.break_mins,
                                          now')
               ELSE /\ UNCHANGED <<show_custom_input, custom_input,
                                   current_session, custom_work_duration,
                                   custom_break_duration, interval_completions>>
        /\ AudioUnchanged
        /\ UNCHANGED <<mode, completed_sessions, show_controls_popup,
                       show_mario_animation, mario_animation>>

DialogEnter == DialogEnterIn({})

\* Backspace in the dialog: custom_input.pop()
DialogBackspace ==
    \E dt \in TimeSteps :
        /\ Wait(dt)
        /\ HarnessUnchanged
        /\ DialogOpen
        /\ custom_input' = IF custom_input = << >> THEN << >>
                           ELSE SubSeq(custom_input, 1, Len(custom_input) - 1)
        /\ pc' = "poll"
        /\ key' = "none"
        /\ TimerUnchanged /\ AudioUnchanged
        /\ UNCHANGED <<show_controls_popup, show_custom_input,
                       show_mario_animation, mario_animation>>

\* a digit or a comma in the dialog: custom_input.push(c)
DialogChar ==
    \E dt \in TimeSteps, c \in TypedChars :
        /\ Wait(dt)
        /\ HarnessUnchanged
        /\ DialogOpen
        /\ Len(custom_input) < MaxInputLen
        /\ custom_input' = Append(custom_input, c)
        /\ pc' = "poll"
        /\ key' = "none"
        /\ TimerUnchanged /\ AudioUnchanged
        /\ UNCHANGED <<show_controls_popup, show_custom_input,
                       show_mario_animation, mario_animation>>

\* any other key in the dialog (Esc, a letter, a key with modifiers)
DialogOtherKeyIn(kept) ==
    \E dt \in TimeSteps, k \in {"esc", "other"} :
        /\ Wait(dt)
        /\ HarnessUnchanged
        /\ DialogOpen
        /\ pc' = "poll"
        /\ key' = KeptKey(k, kept)
        /\ TimerUnchanged /\ UiUnchanged /\ AudioUnchanged

DialogOtherKey == DialogOtherKeyIn({})

\* Esc or Ctrl+C on the main screen: break
KeyQuit ==
    \E dt \in TimeSteps, k \in {"esc", "ctrl_c"} :
        /\ Wait(dt)
        /\ HarnessUnchanged
        /\ MainScreen
        /\ pc' = "exited"
        /\ key' = k
        /\ TimerUnchanged /\ UiUnchanged /\ AudioUnchanged

\* 'w': start_work_session
KeyW ==
    \E dt \in TimeSteps :
        /\ Wait(dt)
        /\ HarnessUnchanged
        /\ MainScreen
        /\ current_session' = StartTimer("Work", custom_work_duration, now')
        /\ interval_completions' = 0
        /\ pc' = "update"
        /\ key' = "w"
        /\ UiUnchanged /\ AudioUnchanged
        /\ UNCHANGED <<mode, completed_sessions, custom_work_duration,
                       custom_break_duration>>

\* 'b': start_break_session
KeyB ==
    \E dt \in TimeSteps :
        /\ Wait(dt)
        /\ HarnessUnchanged
        /\ MainScreen
        /\ current_session' = StartTimer("Break", custom_break_duration, now')
        /\ interval_completions' = 0
        /\ pc' = "update"
        /\ key' = "b"
        /\ UiUnchanged /\ AudioUnchanged
        /\ UNCHANGED <<mode, completed_sessions, custom_work_duration,
                       custom_break_duration>>

\* 'c': show_custom_input_dialog
KeyC ==
    \E dt \in TimeSteps :
        /\ Wait(dt)
        /\ HarnessUnchanged
        /\ MainScreen
        /\ show_custom_input' = TRUE
        /\ custom_input' = << >>
        /\ pc' = "update"
        /\ key' = "c"
        /\ TimerUnchanged /\ AudioUnchanged
        /\ UNCHANGED <<show_controls_popup, show_mario_animation,
                       mario_animation>>

\* Enter or Space: toggle_timer
KeyToggle ==
    \E dt \in TimeSteps :
        /\ Wait(dt)
        /\ HarnessUnchanged
        /\ MainScreen
        /\ current_session' = ToggleTimer(current_session, now')
        /\ pc' = "update"
        /\ key' = "toggle"
        /\ UiUnchanged /\ AudioUnchanged
        /\ UNCHANGED <<mode, completed_sessions, custom_work_duration,
                       custom_break_duration, interval_completions>>

\* 't': toggle_mode
KeyT ==
    \E dt \in TimeSteps :
        /\ Wait(dt)
        /\ HarnessUnchanged
        /\ MainScreen
        /\ mode' = ToggleMode(mode)
        /\ pc' = "update"
        /\ key' = "t"
        /\ UiUnchanged /\ AudioUnchanged
        /\ UNCHANGED <<current_session, completed_sessions,
                       custom_work_duration, custom_break_duration,
                       interval_completions>>

\* 'x': show or hide the controls popup
KeyX ==
    \E dt \in TimeSteps :
        /\ Wait(dt)
        /\ HarnessUnchanged
        /\ MainScreen
        /\ show_controls_popup' = ~show_controls_popup
        /\ pc' = "update"
        /\ key' = "x"
        /\ TimerUnchanged /\ AudioUnchanged
        /\ UNCHANGED <<show_custom_input, custom_input, show_mario_animation,
                       mario_animation>>

\* 'm': show a fresh, started animation
KeyMIn(steps, horizon) ==
    \E dt \in steps :
        /\ WaitUntil(dt, horizon)
        /\ HarnessUnchanged
        /\ MainScreen
        /\ show_mario_animation' = TRUE
        /\ mario_animation' = StartAnimation(NewAnimation(audio_device), now')
        /\ pc' = "update"
        /\ key' = "m"
        /\ TimerUnchanged /\ AudioUnchanged
        /\ UNCHANGED <<show_controls_popup, show_custom_input, custom_input>>

KeyM == KeyMIn(TimeSteps, MaxTime)

\* any other key on the main screen
KeyOther ==
    \E dt \in TimeSteps :
        /\ Wait(dt)
        /\ HarnessUnchanged
        /\ MainScreen
        /\ pc' = "update"
        /\ key' = "other"
        /\ TimerUnchanged /\ UiUnchanged /\ AudioUnchanged

\* ------------------------------------- main_loop: animation update and check

\* an update that puts the animation on show
ShownAlways == TRUE

\* "Update Mario animation": the animation is hidden once it has finished
ShownAfterUpdate ==
    IF show_mario_animation /\ IsFinished(mario_animation, now)
    THEN FALSE ELSE show_mario_animation

OppositeKind(timer_type) == IF timer_type = "Work" THEN "Break" ELSE "Work"

\* mutant: Auto mode restarts the kind that has just completed
NextSessionSameKind(s, m, work_duration, break_duration, t) ==
    IF m = "Auto"
    THEN IF s.timer_type = "Work"
         THEN StartTimer("Work", work_duration, t)
         ELSE StartTimer("Break", break_duration, t)
    ELSE StopTimer(s)

\* complete_session, the match on (timer_type, mode); t is the instant at
\* which play_notification has returned
NextSession(s, m, work_duration, break_duration, t) ==
    IF m = "Auto"
    THEN IF s.timer_type = "Work"
         THEN StartTimer("Break", break_duration, t)
         ELSE StartTimer("Work", work_duration, t)
    ELSE StopTimer(s)

\* the completion check finds nothing to complete
\* (updated: the animation as mario_animation.update() leaves it)
CheckIdleWith(updated) ==
    /\ pc = "update"
    /\ ~CompletionDue(current_session, now)
    /\ mario_animation' = updated
    /\ show_mario_animation' = ShownAfterUpdate
    /\ last_completed' = "None"
    /\ pc' = "poll"
    /\ key' = "none"
    /\ TimerUnchanged
    /\ UNCHANGED <<now, show_controls_popup, show_custom_input, custom_input,
                   audio_device, last_play>>
    /\ HarnessUnchanged

\* between two long steps of the clock the frames of the animation are not
\* followed: only its start and its end are
CheckIdle == CheckIdleWith(mario_animation)

\* the completion check calls complete_session
CompleteSessionWith(updated) ==
    /\ pc = "update"
    /\ CompletionDue(current_session, now)
    /\ completed_sessions < MaxCompleted
    /\ completed_sessions' = CountCompletion(completed_sessions)
    /\ last_play' = PlayAudio(NotificationTones(current_session.timer_type),
                              audio_device)
    /\ now' = now + last_play'.waited
    /\ IF current_session.timer_type = "Work"
       THEN /\ show_mario_animation' = TRUE
            /\ mario_animation' =
                   StartAnimation(NewAnimation(audio_device), now')
       ELSE /\ show_mario_animation' = ShownAfterUpdate
            /\ mario_animation' = updated
    /\ current_session' =
           NextSession(current_session, mode, custom_work_duration,
                       custom_break_duration, now')
    /\ interval_completions' =
           IF mode = "Auto" THEN 0 ELSE interval_completions + 1
    /\ last_completed' = current_session.timer_type
    /\ pc' = "poll"
    /\ key' = "none"
    /\ UNCHANGED <<mode, show_controls_popup, show_custom_input,
                   custom_input, audio_device, custom_work_duration,
                   custom_break_duration>>
    /\ HarnessUnchanged

CompleteSession == CompleteSessionWith(mario_animation)

Next ==
    \/ NoKeyEvent
    \/ AnimationKey
    \/ DialogCancel
    \/ DialogEnter
    \/ DialogBackspace
    \/ DialogChar
    \/ DialogOtherKey
    \/ KeyQuit
    \/ KeyW
    \/ KeyB
    \/ KeyC
    \/ KeyToggle
    \/ KeyT
    \/ KeyX
    \/ KeyM
    \/ KeyOther
    \/ CheckIdle
    \/ CompleteSession

Spec == Init /\ [][Next]_vars

\* --------------------------------------- main_loop frame by frame, with audio

\* a session that was resumed at instant 0 with LeadMillis left to run
NearlyDone(timer_type) ==
    LET duration == IF timer_type = "Work"
                    THEN MinsToDuration(DefaultWorkMins)
                    ELSE MinsToDuration(DefaultBreakMins)
    IN  [timer_type |-> timer_type, duration |-> duration,
         elapsed |-> duration - LeadMillis, is_running |-> TRUE,
         start_time |-> 0]

\* the timer is idle, or a Work or a Break session is about to complete
InitAudio ==
    /\ now = 0
    /\ pc = "poll"
    /\ key = "none"
    /\ current_session \in
           { NewSession, NearlyDone("Work"), NearlyDone("Break") }
    /\ mode = "Auto"
    /\ completed_sessions = 0
    /\ show_controls_popup = FALSE
    /\ show_custom_input = FALSE
    /\ custom_input = << >>
    /\ show_mario_animation = FALSE
    /\ audio_device \in BOOLEAN
    /\ mario_animation = NewAnimation(audio_device)
    /\ custom_work_duration = MinsToDuration(DefaultWorkMins)
    /\ custom_break_duration = MinsToDuration(DefaultBreakMins)
    /\ last_play = NoPlay
    /\ last_completed = "None"
    /\ interval_completions = 0
    /\ custom_result = NoResult
    /\ sink_lock = NoHolder
    /\ callers = << >>
    /\ lock_order = << >>
    /\ rendering = NoTone
    /\ time_display = NoDisplay

\* event::poll(100 ms) times out, or a key is there as the poll begins
FrameTimeout == NoKeyEventIn({PollMillis}, MaxAudioTime)
FrameAnimationKey == AnimationKeyIn({0}, MaxAudioTime, {})
FrameKeyM == KeyMIn({0}, MaxAudioTime)

\* "Update Mario animation": update() runs while the animation is showing
UpdatedAnimation ==
    IF show_mario_animation THEN Update(mario_animation, now)
    ELSE mario_animation

FrameCheckIdle == CheckIdleWith(UpdatedAnimation)
FrameCompleteSession == CompleteSessionWith(UpdatedAnimation)

NextAudio ==
    \/ FrameTimeout
    \/ FrameAnimationKey
    \/ FrameKeyM
    \/ FrameCheckIdle
    \/ FrameCompleteSession

SpecAudio == InitAudio /\ [][NextAudio]_vars

\* ------------------------ two threads calling the effect functions at once

Callers == {1, 2}

\* mutant: the Mutex lets a second caller in
CanLockAlways(holder) == TRUE

\* Mutex::lock returns only when no other caller holds the guard
CanLock(holder) == holder = NoHolder

\* one animation with its sinks; each caller is about to play a different
\* effect
InitSink ==
    /\ now = 0
    /\ pc = "poll"
    /\ key = "none"
    /\ current_session = NewSession
    /\ mode = "Auto"
    /\ completed_sessions = 0
    /\ show_controls_popup = FALSE
    /\ show_custom_input = FALSE
    /\ custom_input = << >>
    /\ show_mario_animation = FALSE
    /\ audio_device = TRUE
    /\ mario_animation = NewAnimation(audio_device)
    /\ custom_work_duration = MinsToDuration(DefaultWorkMins)
    /\ custom_break_duration = MinsToDuration(DefaultBreakMins)
    /\ last_play = NoPlay
    /\ last_completed = "None"
    /\ interval_completions = 0
    /\ custom_result = NoResult
    /\ sink_lock = NoHolder
    /\ callers \in
           { c \in [Callers -> [pc : {"idle"}, effect : Effects, next : {1}]] :
               c[1].effect # c[2].effect }
    /\ lock_order = << >>
    /\ rendering = NoTone
    /\ time_display = NoDisplay

SinkFrame ==
    UNCHANGED <<now, pc, key, current_session, mode, completed_sessions,
                show_controls_popup, show_custom_input, custom_input,
                show_mario_animation, audio_device, custom_work_duration,
                custom_break_duration, last_play, last_completed,
                interval_completions, custom_result, rendering, time_display>>

\* play_jump_sound and its like: sink.lock().unwrap()
LockSink(p) ==
    /\ callers[p].pc = "idle"
    /\ mario_animation.has_sinks
    /\ CanLock(sink_lock)
    /\ sink_lock' = p
    /\ lock_order' = Append(lock_order, p)
    /\ callers' = [callers EXCEPT ![p].pc = "locked"]
    /\ UNCHANGED mario_animation
    /\ SinkFrame

\* play_sound_effect: the next sink.append of the loop, under the guard
AppendTone(p) ==
    /\ callers[p].pc = "locked"
    /\ callers[p].next <= Len(RequestTones(callers[p].effect))
    /\ mario_animation' =
           [mario_animation EXCEPT !.sfx_sink =
               AppendAll(@, << PlaySoundEffect(callers[p].effect,
                                               RequestTones(callers[p].effect),
                                               now)[callers[p].next] >>, now)]
    /\ callers' = [callers EXCEPT ![p].next = @ + 1]
    /\ UNCHANGED <<sink_lock, lock_order>>
    /\ SinkFrame

\* the guard goes out of scope when the loop is over
UnlockSink(p) ==
    /\ callers[p].pc = "locked"
    /\ callers[p].next > Len(RequestTones(callers[p].effect))
    /\ sink_lock' = NoHolder
    /\ callers' = [callers EXCEPT ![p].pc = "done"]
    /\ UNCHANGED <<mario_animation, lock_order>>
    /\ SinkFrame

NextSink ==
    \/ \E p \in Callers : LockSink(p)
    \/ \E p \in Callers : AppendTone(p)
    \/ \E p \in Callers : UnlockSink(p)

SpecSink == InitSink /\ [][NextSink]_vars

\* ------------------------------------- the custom dialog in full u32 width

\* a decimal string from its digits
DigitString(ds) == [i \in 1..Len(ds) |-> Digits[ds[i] + 1]]

\* numbers around the edges of u32 and of the 60-fold product:
\* 0, 00, 1, 25, 71582788 (the largest whose product fits), 71582789,
\* 2^30, 2^31, 3 * 2^30, 2^32 - 1, 2^32, 2^32 + 1
MinuteStrings ==
    { DigitString(ds) : ds \in
        { <<0>>, <<0, 0>>, <<1>>, <<2, 5>>,
          <<7, 1, 5, 8, 2, 7, 8, 8>>, <<7, 1, 5, 8, 2, 7, 8, 9>>,
          <<1, 0, 7, 3, 7, 4, 1, 8, 2, 4>>, <<2, 1, 4, 7, 4, 8, 3, 6, 4, 8>>,
          <<3, 2, 2, 1, 2, 2, 5, 4, 7, 2>>, <<4, 2, 9, 4, 9, 6, 7, 2, 9, 5>>,
          <<4, 2, 9, 4, 9, 6, 7, 2, 9, 6>>,
          <<4, 2, 9, 4, 9, 6, 7, 2, 9, 7>> } }

\* what the dialog holds when Enter is pressed: digits and commas only
CustomInputs ==
    MinuteStrings
        \cup { w \o <<",">> \o b : w \in MinuteStrings, b \in MinuteStrings }
        \cup { << >>, <<",">>, <<"1", ",">>, <<",", "1">>,
               <<"1", ",", "1", ",", "1">> }

\* the dialog is open and holds any of the inputs
InitCustom ==
    /\ now = 0
    /\ pc = "poll"
    /\ key = "none"
    /\ current_session = NewSession
    /\ mode = "Auto"
    /\ completed_sessions = 0
    /\ show_controls_popup = FALSE
    /\ show_custom_input = TRUE
    /\ custom_input \in CustomInputs
    /\ show_mario_animation = FALSE
    /\ audio_device \in BOOLEAN
    /\ mario_animation = NewAnimation(audio_device)
    /\ custom_work_duration = MinsToDuration(DefaultWorkMins)
    /\ custom_break_duration = MinsToDuration(DefaultBreakMins)
    /\ last_play = NoPlay
    /\ last_completed = "None"
    /\ interval_completions = 0
    /\ custom_result = NoResult
    /\ sink_lock = NoHolder
    /\ callers = << >>
    /\ lock_order = << >>
    /\ rendering = NoTone
    /\ time_display = NoDisplay

\* Enter in the dialog: parse_and_start_custom_timer and the seconds that
\* start_custom_session hands to Duration::from_secs.  overflow_checks: the
\* build panics on an overflowing u32 product instead of wrapping it.
CustomEnter ==
    \E overflow_checks \in BOOLEAN :
        /\ pc = "poll"
        /\ show_custom_input
        /\ LET result == ParseCustomInput(custom_input)
               work == CustomSecs(result.work_mins)
               break == IF result.break_mins.some
                        THEN CustomSecs(result.break_mins.value)
                        ELSE MulAddU32(ZeroU32, 1,
                                       DefaultBreakMins * SecsPerMin)
           IN  IF custom_input = << >>
               THEN /\ show_custom_input' = FALSE
                    /\ custom_input' = << >>
                    /\ custom_result' = [NoResult EXCEPT !.outcome = "hidden"]
                    /\ pc' = pc
               ELSE IF ~result.ok
               THEN /\ custom_result' =
                           [NoResult EXCEPT !.outcome = "rejected"]
                    /\ UNCHANGED <<show_custom_input, custom_input, pc>>
               ELSE IF overflow_checks /\ (work.overflow \/ break.overflow)
               THEN /\ show_custom_input' = FALSE
                    /\ custom_input' = << >>
                    /\ custom_result' =
                           [NoResult EXCEPT
                               !.outcome = "panicked",
                               !.work_mins = result.work_mins,
                               !.break_mins = result.break_mins]
                    /\ pc' = "exited"
               ELSE /\ show_custom_input' = FALSE
                    /\ custom_input' = << >>
                    /\ custom_result' =
                           [outcome |-> "started",
                            work_mins |-> result.work_mins,
                            break_mins |-> result.break_mins,
                            work_secs |-> work.value,
                            break_secs |-> break.value]
                    /\ pc' = pc
        /\ UNCHANGED <<now, key, current_session, mode, completed_sessions,
                       show_controls_popup, show_mario_animation,
                       mario_animation, audio_device, custom_work_duration,
                       custom_break_duration, last_play, last_completed,
                       interval_completions, sink_lock, callers, lock_order,
                       rendering, time_display>>

NextCustom == CustomEnter

SpecCustom == InitCustom /\ [][NextCustom]_vars

\* ------------------------------------------- the keys around Esc, observed

\* the main loop driven with the keys that open and close the dialog, the
\* popup and the animation and with Esc, where `key` keeps every Esc read
EscAnimationKey == AnimationKeyIn(TimeSteps, MaxTime, {"esc"})
EscDialogKey == DialogOtherKeyIn({"esc"})

NextEsc ==
    \/ NoKeyEvent
    \/ EscAnimationKey
    \/ EscDialogKey
    \/ DialogCancel
    \/ KeyQuit
    \/ KeyC
    \/ KeyX
    \/ KeyM
    \/ CheckIdle

SpecEsc == Init /\ [][NextEsc]_vars

\* --------------------------------------------- the dialog's Enter, observed

\* the main loop driven with the keys of the dialog and with T, where `key`
\* keeps every Enter read in the dialog
EnterDialogKey == DialogEnterIn({"enter"})

NextDialog ==
    \/ NoKeyEvent
    \/ KeyC
    \/ KeyT
    \/ DialogChar
    \/ DialogBackspace
    \/ DialogCancel
    \/ EnterDialogKey
    \/ CheckIdle
    \/ CompleteSession

SpecDialog == Init /\ [][NextDialog]_vars

\* ------------------------------------------- the animation, call by call

\* The animation object of PomodoroTimer::new, driven through its two
\* public operations: start() at any moment, and one update() per 100 ms
\* iteration of the main loop, a few of them before start().

\* update() calls made on one started animation, and before it is started
MaxFrames == 105
MaxIdleUpdates == 2

AnimUnchanged ==
    /\ HarnessUnchanged
    /\ TimerUnchanged /\ AudioUnchanged
    /\ UNCHANGED <<pc, key, show_controls_popup, show_custom_input,
                   custom_input, show_mario_animation>>

\* MarioAnimation::start
AnimStart ==
    /\ ~mario_animation.started
    /\ mario_animation' = StartAnimation(mario_animation, now)
    /\ now' = now
    /\ AnimUnchanged

\* MarioAnimation::update, one iteration later
AnimUpdate ==
    /\ IF mario_animation.started
       THEN mario_animation.animation_frame < MaxFrames
       ELSE now < MaxIdleUpdates * PollMillis
    /\ now' = now + PollMillis
    /\ mario_animation' = Update(mario_animation, now')
    /\ AnimUnchanged

NextAnim ==
    \/ AnimStart
    \/ AnimUpdate

SpecAnim == Init /\ [][NextAnim]_vars

\* the main loop calls update() in every iteration while the animation shows
SpecAnimFair == SpecAnim /\ WF_vars(AnimUpdate)

\* ------------------------------------------------ a tone source on its own

\* longest tone that is rendered
MaxToneMillis == 12
\* calls of next() that are made after the source has ended
MaxEndedCalls == 2

\* a tone of any whole-millisecond duration is about to be rendered
InitTone ==
    /\ now = 0
    /\ pc = "poll"
    /\ key = "none"
    /\ current_session = NewSession
    /\ mode = "Auto"
    /\ completed_sessions = 0
    /\ show_controls_popup = FALSE
    /\ show_custom_input = FALSE
    /\ custom_input = << >>
    /\ show_mario_animation = FALSE
    /\ audio_device = TRUE
    /\ mario_animation = NewAnimation(audio_device)
    /\ custom_work_duration = MinsToDuration(DefaultWorkMins)
    /\ custom_break_duration = MinsToDuration(DefaultBreakMins)
    /\ last_play = NoPlay
    /\ last_completed = "None"
    /\ interval_completions = 0
    /\ custom_result = NoResult
    /\ sink_lock = NoHolder
    /\ callers = << >>
    /\ lock_order = << >>
    /\ rendering \in { [NoTone EXCEPT !.wave = w, !.ms = d] :
                    w \in ToneWaves, d \in 0..MaxToneMillis }
    /\ time_display = NoDisplay

PureFrame ==
    UNCHANGED <<now, pc, key, current_session, mode, completed_sessions,
                show_controls_popup, show_custom_input, custom_input,
                show_mario_animation, mario_animation, audio_device,
                custom_work_duration, custom_break_duration, last_play,
                last_completed, interval_completions, custom_result,
                sink_lock, callers, lock_order>>

\* SquareWaveWithDecay::new(freq, dur, sample_rate), MarioTone::new(freq, dur)
ToneNew ==
    /\ rendering.source = NoToneSource
    /\ rendering' =
           [rendering EXCEPT
               !.source = NewToneSource(rendering.wave, rendering.ms)]
    /\ UNCHANGED time_display
    /\ PureFrame

\* the sink asks the source for its next sample
ToneNext ==
    /\ rendering.source # NoToneSource
    /\ rendering.ended < MaxEndedCalls
    /\ LET res == NextSample(rendering.source)
       IN  rendering' = [rendering EXCEPT !.source = res.source,
                                !.yielded = IF res.some THEN @ + 1 ELSE @,
                                !.ended = IF res.some THEN @ ELSE @ + 1]
    /\ UNCHANGED time_display
    /\ PureFrame

NextTone ==
    \/ ToneNew
    \/ ToneNext

SpecTone == InitTone /\ [][NextTone]_vars

\* ------------------------------------------------ format_duration on its own

\* longest duration that is formatted, in seconds
MaxFormatSecs == 6005
\* the part of a second a formatted duration may carry
SubSecondMillis == {0, 999}

\* a duration is about to be formatted
InitFormat ==
    /\ now = 0
    /\ pc = "poll"
    /\ key = "none"
    /\ current_session = NewSession
    /\ mode = "Auto"
    /\ completed_sessions = 0
    /\ show_controls_popup = FALSE
    /\ show_custom_input = FALSE
    /\ custom_input = << >>
    /\ show_mario_animation = FALSE
    /\ audio_device = TRUE
    /\ mario_animation = NewAnimation(audio_device)
    /\ custom_work_duration = MinsToDuration(DefaultWorkMins)
    /\ custom_break_duration = MinsToDuration(DefaultBreakMins)
    /\ last_play = NoPlay
    /\ last_completed = "None"
    /\ interval_completions = 0
    /\ custom_result = NoResult
    /\ sink_lock = NoHolder
    /\ callers = << >>
    /\ lock_order = << >>
    /\ rendering = NoTone
    /\ time_display \in
           { [NoDisplay EXCEPT !.duration = s * MillisPerSec + f] :
               s \in 0..MaxFormatSecs, f \in SubSecondMillis }

\* PomodoroTimer::format_duration(duration)
Format ==
    /\ time_display.text = << >>
    /\ time_display' =
           [time_display EXCEPT !.text = FormatDuration(time_display.duration)]
    /\ UNCHANGED rendering
    /\ PureFrame

NextFormat == Format

SpecFormat == InitFormat /\ [][NextFormat]_vars

\* ------------------------------------------------------------------ claims

\* a step in which complete_session was called
Completion == completed_sessions' = completed_sessions + 1

\* C1: every interval begun by start_timer is completed at most once before
\* the next start_timer.
C1_AtMostOneCompletionPerInterval == interval_completions <= 1

\* C2: a completion in Manual mode leaves the timer not running, without a
\* start instant, of the same kind, and with a remaining time of 0.
C2_ManualHaltShowsZero ==
    [][(Completion /\ mode = "Manual") =>
          /\ ~current_session'.is_running
          /\ current_session'.start_time = None
          /\ current_session'.timer_type = current_session.timer_type
          /\ Remaining(current_session', now') = 0]_vars

\* C3: a completion in Auto mode leaves, in the same step, the timer running
\* with the opposite kind, no elapsed time, and the duration configured for
\* that kind; the mode is the one in force when the completion is detected.
C3_AutoCompletionStartsOpposite ==
    [][(Completion /\ mode = "Auto") =>
          /\ current_session'.is_running
          /\ current_session'.timer_type =
                 OppositeKind(current_session.timer_type)
          /\ current_session'.elapsed = 0
          /\ GetTimerProgress(current_session', now') = 0
          /\ current_session'.duration =
                 IF current_session.timer_type = "Work"
                 THEN custom_break_duration ELSE custom_work_duration]_vars

\* a Break has just been completed in Auto mode and a Work interval runs
C3_Witness ==
    /\ pc = "poll"
    /\ last_completed = "Break"
    /\ mode = "Auto"
    /\ current_session.timer_type = "Work"
    /\ current_session.is_running

\* C4: in Auto mode the next interval starts at the instant the completion is
\* detected, whether or not a melody is played.
C4_NextIntervalStartsAtDetection ==
    [][(Completion /\ mode = "Auto") => current_session'.start_time = now]_vars

\* C5: play_audio returns once the tones are enqueued, without waiting for
\* them to be played.
C5_PlayAudioDoesNotWait == last_play.appended > 0 => last_play.waited = 0

\* C6: a completion fires only from a state in which the session is running
\* and its effective elapsed time has reached its duration.
C6_CompletionOnlyWhenRunningAndDue ==
    [][Completion =>
          /\ current_session.is_running
          /\ GetTimerProgress(current_session, now) >= current_session.duration
      ]_vars

\* the completion check has run on a session paused past its deadline and has
\* fired nothing
C6_Witness ==
    /\ pc = "poll"
    /\ ~current_session.is_running
    /\ current_session.elapsed >= current_session.duration
    /\ last_completed = "None"
    /\ completed_sessions = 0

\* C7: every iteration of the poll loop runs the completion check, so no
\* iteration ends with a running session that has reached its duration.
C7_EveryIterationChecks ==
    pc = "poll" => ~CompletionDue(current_session, now)

\* C8: is_running is true exactly when start_time is Some.
C8_RunningIffStartTime ==
    current_session.is_running <=> current_session.start_time # None

\* the timer has just been halted by a completion in Manual mode
C8_Witness ==
    /\ last_completed # "None"
    /\ mode = "Manual"
    /\ ~current_session.is_running
    /\ current_session.start_time = None

\* C9: start_timer(kind, duration) yields a running session of that kind and
\* duration with no elapsed time and start_time = now, from any state, and
\* leaves mode, completed_sessions and the custom durations unchanged.
C9_StartTimerResetsSession ==
    [][/\ key' \in {"w", "b"} =>
            /\ current_session' =
                   [timer_type |-> IF key' = "w" THEN "Work" ELSE "Break",
                    duration |-> IF key' = "w" THEN custom_work_duration
                                 ELSE custom_break_duration,
                    elapsed |-> 0, is_running |-> TRUE, start_time |-> now']
            /\ UNCHANGED <<mode, completed_sessions, custom_work_duration,
                           custom_break_duration>>
       /\ (Completion /\ mode = "Auto") =>
            /\ current_session'.elapsed = 0
            /\ current_session'.is_running
            /\ current_session'.start_time = now'
            /\ UNCHANGED <<mode, custom_work_duration, custom_break_duration>>
      ]_vars

\* 'w' has just restarted a timer that a Manual completion had halted
C9_Witness ==
    /\ pc = "update"
    /\ key = "w"
    /\ completed_sessions > 0
    /\ mode = "Manual"
    /\ current_session.is_running
    /\ current_session.start_time = now

\* C10: pause(); pause() leaves the session as a single pause() does, and
\* resume(); resume() as a single resume() does, whenever the calls are made.
C10_PauseResumeIdempotent ==
    \A d1 \in TimeSteps, d2 \in TimeSteps :
        LET t1 == now + d1
            t2 == t1 + d2
        IN  /\ PauseTimer(PauseTimer(current_session, t1), t2) =
                   PauseTimer(current_session, t1)
            /\ ResumeTimer(ResumeTimer(current_session, t1), t2) =
                   ResumeTimer(current_session, t1)

\* a session that was paused part-way: pause has acted, resume would act
C10_Witness ==
    /\ ~current_session.is_running
    /\ current_session.elapsed > 0
    /\ current_session.elapsed < current_session.duration

\* a step that starts an interval: 'w', 'b', a custom start, or a completion
StartOrCompletion ==
    \/ key' \in {"w", "b"}
    \/ show_custom_input /\ ~show_custom_input'
           /\ current_session' # current_session
    \/ pc = "update" /\ last_completed' # "None"

\* C11: across every step that neither starts nor completes an interval, the
\* effective elapsed time does not decrease, stays the same while the session
\* is paused, and is not changed by the pause or resume call itself.
C11_ElapsedConserved ==
    [][~StartOrCompletion =>
          /\ GetTimerProgress(current_session', now') >=
                 GetTimerProgress(current_session, now)
          /\ (~current_session.is_running /\ ~current_session'.is_running) =>
                 GetTimerProgress(current_session', now') =
                     GetTimerProgress(current_session, now)
          /\ key' = "toggle" =>
                 GetTimerProgress(current_session', now') =
                     GetTimerProgress(current_session, now')
      ]_vars

\* a session that was paused, resumed and has run on since
C11_Witness ==
    /\ current_session.is_running
    /\ current_session.elapsed > 0
    /\ now > current_session.start_time
    /\ completed_sessions = 0

\* C12: completed_sessions grows by exactly 1 in every step that completes an
\* interval and is left unchanged by every other step.
C12_CounterCountsCompletions ==
    [][IF pc = "update" /\ last_completed' # "None"
       THEN completed_sessions' = completed_sessions + 1
       ELSE completed_sessions' = completed_sessions]_vars

\* two intervals have been completed
C12_Witness == completed_sessions = 2 /\ last_completed # "None"

\* C13: every submission of the custom dialog is either refused, leaving the
\* session alone, or hands the timer Work and Break durations above zero.
C13_CustomDurationsPositive ==
    \/ custom_result.outcome \in {"none", "hidden", "rejected"}
    \/ /\ custom_result.outcome = "started"
       /\ custom_result.work_secs # ZeroU32
       /\ custom_result.break_secs # ZeroU32

\* C14: a completion leaves the timer as it does when the audio device cannot
\* be opened: the next session, and the animation of a Work completion, are
\* set up at the instant the completion was detected.
C14_SameEvolutionWithoutAudio ==
    [][(pc = "update" /\ last_completed' # "None") =>
          /\ current_session' =
                 NextSession(current_session, mode, custom_work_duration,
                             custom_break_duration, now)
          /\ current_session.timer_type = "Work" =>
                 mario_animation'.start_time = now
      ]_vars

\* C15: when the audio device cannot be opened, no play request appends a
\* source or keeps its caller waiting, and the loop goes on.
C15_NoDeviceNoAppend ==
    ~audio_device =>
        /\ ~mario_animation.has_sinks
        /\ mario_animation.music_sink = EmptySink
        /\ mario_animation.sfx_sink = EmptySink
        /\ last_play.sources = << >>
        /\ last_play.waited = 0
        /\ pc \in {"poll", "update"}

\* without a device: the theme and the three effects have been requested and
\* a completion melody as well
C15_Witness ==
    /\ ~audio_device
    /\ mario_animation.music_started
    /\ mario_animation.tomato_hit
    /\ completed_sessions = 1

\* the sources of a queue follow the tones of their requests: each source is
\* the tone at its place, silent exactly for frequency 0, and is followed by
\* the next tone of the same request or by the first tone of a later request
InSequenceOrder(queue) ==
    /\ \A i \in 1..Len(queue) :
          LET tone == RequestTones(queue[i].from)[queue[i].idx]
          IN  /\ queue[i].freq = tone[1]
              /\ queue[i].ms = tone[2]
              /\ (queue[i].wave = "Zero") <=> (tone[1] = 0)
    /\ \A i \in 1..(Len(queue) - 1) :
          \/ /\ queue[i + 1].from = queue[i].from
             /\ queue[i + 1].at = queue[i].at
             /\ queue[i + 1].idx = queue[i].idx + 1
          \/ /\ queue[i].idx = Len(RequestTones(queue[i].from))
             /\ queue[i + 1].idx = 1
             /\ queue[i + 1].at >= queue[i].at

\* C16: every sink holds one source per tone in the order of the request's
\* tones, a silent source exactly for a frequency of 0, and what is left to
\* play is always the rest of that order.
C16_SourcesInToneOrder ==
    /\ InSequenceOrder(mario_animation.music_sink.queue)
    /\ InSequenceOrder(mario_animation.sfx_sink.queue)
    /\ InSequenceOrder(Drain(mario_animation.music_sink, now).queue)
    /\ InSequenceOrder(Drain(mario_animation.sfx_sink, now).queue)
    /\ \A i \in 1..Len(last_play.sources) :
          /\ last_play.sources[i].idx = i
          /\ (last_play.sources[i].wave = "Zero") <=>
                 (last_play.sources[i].freq = 0)

\* the brick-break effect, with its two rests, is partly played
C16_Witness ==
    LET left == Drain(mario_animation.sfx_sink, now).queue
    IN  /\ left # << >>
        /\ Head(left).from = "brick"
        /\ Head(left).idx > 1
        /\ \E i \in 1..Len(left) : left[i].wave = "Zero"

\* the caller whose effect a source belongs to, and its place in lock_order
CallerOf(source) == CHOOSE p \in Callers : callers[p].effect = source.from
LockPlace(p) == CHOOSE n \in 1..Len(lock_order) : lock_order[n] = p

\* C17: the sources of two callers are never interleaved in the sink: each
\* caller's tones are together and in order, the callers' blocks follow the
\* order in which the lock was taken, and the holder of the lock never waits.
C17_AppendsSerialized ==
    LET queue == mario_animation.sfx_sink.queue
    IN  /\ \A i \in 1..Len(queue), k \in 1..Len(queue) :
              (i < k /\ queue[i].from = queue[k].from) =>
                  \A j \in i..k : queue[j].from = queue[i].from
        /\ \A i \in 1..(Len(queue) - 1) :
              IF queue[i + 1].from = queue[i].from
              THEN queue[i + 1].idx = queue[i].idx + 1
              ELSE LockPlace(CallerOf(queue[i])) <
                       LockPlace(CallerOf(queue[i + 1]))
        /\ sink_lock # NoHolder =>
              ENABLED (AppendTone(sink_lock) \/ UnlockSink(sink_lock))

\* both callers are done; the second one took the lock first
C17_Witness ==
    /\ callers # << >>
    /\ \A p \in Callers : callers[p].pc = "done"
    /\ lock_order = <<2, 1>>
    /\ Len(mario_animation.sfx_sink.queue) =
           Len(RequestTones(callers[1].effect))
               + Len(RequestTones(callers[2].effect))

\* C18: the music sink holds only the theme and the effects sink only
\* effects, and an effect that finds the effects sink empty starts to play at
\* the instant it is appended, whatever the music sink still holds.
C18_ChannelsIndependent ==
    LET music == mario_animation.music_sink
        sfx == mario_animation.sfx_sink
    IN  /\ \A i \in 1..Len(music.queue) : music.queue[i].from = "theme"
        /\ \A i \in 1..Len(sfx.queue) : sfx.queue[i].from \in Effects
        /\ (sfx.queue # << >> /\ Head(sfx.queue).idx = 1) =>
               sfx.head_start = Head(sfx.queue).at

\* an effect is playing while theme tones are still queued
C18_Witness ==
    /\ Drain(mario_animation.sfx_sink, now).queue # << >>
    /\ Len(Drain(mario_animation.music_sink, now).queue) > 1

\* what sink `old` still holds at instant t is still at the front of `new`
StillQueued(old, new, t) ==
    LET left == Drain(old, t).queue
        queue == Drain(new, t).queue
    IN  /\ Len(left) <= Len(queue)
        /\ SubSeq(queue, 1, Len(left)) = left

\* C19: no step takes a source that has not been played out of a sink.
C19_QueuedTonesPlayOut ==
    [][/\ StillQueued(mario_animation.music_sink,
                      mario_animation'.music_sink, now')
       /\ StillQueued(mario_animation.sfx_sink,
                      mario_animation'.sfx_sink, now')
      ]_vars

StrictlyDescending(sources) ==
    \A i \in 1..(Len(sources) - 1) : sources[i].freq > sources[i + 1].freq

\* C20: a completion step enqueues the cue of the kind that has completed and
\* nothing else: four tones of strictly descending frequency after Work, the
\* four rising notification tones, a rest and the melody after Break; no
\* other step enqueues a cue.
C20_OneCuePerCompletion ==
    [][IF pc = "update" /\ last_completed' # "None"
       THEN IF ~audio_device THEN last_play'.sources = << >>
            ELSE IF current_session.timer_type = "Work"
            THEN /\ Len(last_play'.sources) = 4
                 /\ StrictlyDescending(last_play'.sources)
                 /\ \A i \in 1..4 : last_play'.sources[i].freq > 0
            ELSE /\ Len(last_play'.sources) > 4 + 1
                 /\ \A i \in 1..3 : last_play'.sources[i].freq <
                                        last_play'.sources[i + 1].freq
                 /\ last_play'.sources[4 + 1].wave = "Zero"
       ELSE last_play' = last_play]_vars

\* with a device, a Work and then a Break have been completed
C20_Witness ==
    /\ audio_device
    /\ completed_sessions = 2
    /\ last_completed = "Break"
    /\ last_play.appended = Len(BreakCompleteTones)

\* duration_seconds * sample_rate rounded to the nearest whole number
RoundedSamples(ms, sample_rate) ==
    (ms * sample_rate + MillisPerSec \div 2) \div MillisPerSec

\* C21: a tone source built from a tone of frequency above zero holds
\* exactly round(duration_seconds * sample_rate) samples, which for a
\* duration of d whole milliseconds at 44100 Hz is round(44.1 * d).
C21_RoundedSampleCount ==
    rendering.source # NoToneSource =>
        rendering.source.total_samples =
            RoundedSamples(rendering.ms, rendering.source.sample_rate)

\* C22: a tone source is finite and reports its remaining length exactly:
\* next() yields a sample exactly total_samples times and None on every
\* later call, sample_idx never exceeds total_samples, and the reported
\* remaining length is total_samples minus the samples yielded so far.
C22_SourceFiniteAndExact ==
    rendering.source # NoToneSource =>
        /\ rendering.source.sample_idx <= rendering.source.total_samples
        /\ rendering.yielded <= rendering.source.total_samples
        /\ rendering.ended > 0 =>
               rendering.yielded = rendering.source.total_samples
        /\ CurrentFrameLen(rendering.source) =
               rendering.source.total_samples - rendering.yielded
        /\ CurrentFrameLen(rendering.source) >= 0
        /\ NextSample(rendering.source).some <=>
               rendering.yielded < rendering.source.total_samples

\* a source of several hundred samples that was drained and then asked again
C22_Witness ==
    /\ rendering.ms = MaxToneMillis
    /\ rendering.source # NoToneSource
    /\ rendering.source.total_samples > 0
    /\ rendering.yielded = rendering.source.total_samples
    /\ rendering.ended = MaxEndedCalls

\* C23: PomodoroTimer::new gives mode Auto, no completed session and a Work
\* session of 25 minutes with elapsed 0 that is not running and has no
\* start_time, with no dialog, popup or animation shown; and no completion
\* fires until a start or a resume has been performed: a completion needs a
\* running session, and only a start or a resume makes a session run.
C23_NewTimerIdle ==
    /\ mode = "Auto"
    /\ completed_sessions = 0
    /\ current_session.timer_type = "Work"
    /\ current_session.duration =
           DefaultWorkMins * SecsPerMin * MillisPerSec
    /\ current_session.elapsed = 0
    /\ ~current_session.is_running
    /\ current_session.start_time = None
    /\ ~show_controls_popup /\ ~show_custom_input /\ ~show_mario_animation
    /\ [][Completion => current_session.is_running]_vars
    /\ [][(~current_session.is_running /\ current_session'.is_running) =>
              \/ key' \in {"w", "b", "toggle"}
              \/ show_custom_input /\ ~show_custom_input'
      ]_vars

\* the new timer was left alone for a minute of loop iterations
C23_Witness ==
    /\ pc = "poll"
    /\ now >= 2 * StepMillis
    /\ current_session = NewSession
    /\ completed_sessions = 0
    /\ last_completed = "None"
    /\ custom_work_duration = MinsToDuration(DefaultWorkMins)

\* the number a string of decimal digits stands for
RECURSIVE DecimalValue(_)
DecimalValue(str) ==
    IF str = << >> THEN 0
    ELSE 10 * DecimalValue(SubSeq(str, 1, Len(str) - 1))
             + DigitValue(str[Len(str)])

\* C24: for a duration of s whole seconds format_duration returns MM:SS with
\* MM = floor(s / 60) and SS = s mod 60, each written in decimal and padded
\* with zeros to at least two digits, so that MM * 60 + SS = s and
\* 0 <= SS < 60.
C24_FormatIsMinutesSeconds ==
    time_display.text # << >> =>
        LET text == time_display.text
            n == Len(text)
            s == time_display.duration \div MillisPerSec
            mm == SubSeq(text, 1, n - 3)
            ss == SubSeq(text, n - 1, n)
        IN  /\ n >= 5
            /\ text[n - 2] = ":"
            /\ \A i \in 1..n : i # n - 2 => text[i] \in DigitChars
            /\ Len(mm) > 2 => mm[1] # "0"
            /\ DecimalValue(mm) = s \div 60
            /\ DecimalValue(ss) = s % 60
            /\ DecimalValue(mm) * 60 + DecimalValue(ss) = s
            /\ DecimalValue(ss) < 60

\* the 125 seconds of test_format_duration came out as 02:05
C24_Witness ==
    /\ time_display.duration = 125 * MillisPerSec
    /\ time_display.text = <<"0", "2", ":", "0", "5">>

\* C25: wherever the main screen handles keys, W starts a running Work
\* interval of 25 minutes and B a running Break interval of 5 minutes.
C25_KeysStartDefaultIntervals ==
    [][/\ key' = "w" =>
              /\ current_session'.timer_type = "Work"
              /\ current_session'.is_running
              /\ current_session'.duration =
                     DefaultWorkMins * SecsPerMin * MillisPerSec
       /\ key' = "b" =>
              /\ current_session'.timer_type = "Break"
              /\ current_session'.is_running
              /\ current_session'.duration =
                     DefaultBreakMins * SecsPerMin * MillisPerSec
      ]_vars

\* C26: Esc without modifiers exits the application in every UI state: on
\* the main screen, with the help popup open, with the custom-input dialog
\* open and while the animation is showing.
C26_EscExits == key = "esc" => pc = "exited"

\* C27: toggle_mode switches Auto to Manual and Manual to Auto and leaves
\* the current session, completed_sessions and the custom durations as they
\* were; a second toggle restores the original mode.
C27_ToggleModeOnlySwitchesMode ==
    [][key' = "t" =>
          /\ mode = "Auto" => mode' = "Manual"
          /\ mode = "Manual" => mode' = "Auto"
          /\ ToggleMode(mode') = mode
          /\ current_session' = current_session
          /\ completed_sessions' = completed_sessions
          /\ custom_work_duration' = custom_work_duration
          /\ custom_break_duration' = custom_break_duration
      ]_vars

\* T has just brought a running custom session back to the mode it began in
C27_Witness ==
    /\ pc = "update"
    /\ key = "t"
    /\ mode = "Auto"
    /\ current_session.is_running
    /\ custom_work_duration # MinsToDuration(DefaultWorkMins)

\* the fields of a session that pause, resume and toggle never write
SessionKept(s, r) ==
    /\ r.timer_type = s.timer_type
    /\ r.duration = s.duration

\* C29: pause acts only on a running session and resume only on one that is
\* not running, toggle is pause when running and resume otherwise, and the
\* three change nothing but elapsed, is_running and start_time.
C29_PauseResumeToggleFrame ==
    /\ [](\A dt \in TimeSteps :
            LET t == now + dt
                s == current_session
            IN  /\ ~s.is_running => PauseTimer(s, t) = s
                /\ s.is_running =>
                       /\ ResumeTimer(s, t) = s
                       /\ ~PauseTimer(s, t).is_running
                /\ ~s.is_running => ResumeTimer(s, t).is_running
                /\ ToggleTimer(s, t) =
                       IF s.is_running THEN PauseTimer(s, t)
                       ELSE ResumeTimer(s, t)
                /\ SessionKept(s, PauseTimer(s, t))
                /\ SessionKept(s, ResumeTimer(s, t))
                /\ SessionKept(s, ToggleTimer(s, t)))
    /\ [][key' = "toggle" =>
              /\ current_session'.is_running = ~current_session.is_running
              /\ SessionKept(current_session, current_session')
              /\ UNCHANGED <<mode, completed_sessions, custom_work_duration,
                             custom_break_duration, show_controls_popup,
                             show_custom_input, custom_input,
                             show_mario_animation>>
      ]_vars

\* Space has just paused a session that had run for a while
C29_Witness ==
    /\ pc = "update"
    /\ key = "toggle"
    /\ ~current_session.is_running
    /\ current_session.start_time = None
    /\ current_session.elapsed = StepMillis

\* the sessions whose remaining time is looked at: the current one, and the
\* same session with a duration of zero
ShownSessions == {current_session, [current_session EXCEPT !.duration = 0]}

\* C28: the remaining time shown is max(duration - effective elapsed, 0) in
\* every reachable state: it is never negative and the subtraction is not
\* performed when elapsed exceeds duration, also while the session is paused
\* past its deadline and for a duration of zero.
C28_RemainingIsClampedDifference ==
    \A s \in ShownSessions :
        LET elapsed == GetTimerProgress(s, now)
            shown == Remaining(s, now)
        IN  /\ shown >= 0
            /\ elapsed >= s.duration => shown = 0
            /\ elapsed < s.duration => shown = s.duration - elapsed
            /\ s.duration = 0 => shown = 0

\* a session paused at its deadline is drawn with nothing remaining, and
\* with a duration of zero its elapsed time exceeds the duration
C28_Witness ==
    /\ pc = "poll"
    /\ ~current_session.is_running
    /\ current_session.elapsed > 0
    /\ GetTimerProgress(current_session, now) >= current_session.duration
    /\ Remaining(current_session, now) = 0

\* the seconds are 60 times the minutes as numbers: the u32 product did not
\* overflow
ExactSecs(mins, secs) ==
    /\ ~MulAddU32(mins, SecsPerMin, 0).overflow
    /\ secs = MulAddU32(mins, SecsPerMin, 0).value

\* C30: submitting a valid custom string w or w,b closes the dialog, sets
\* the Work duration to w minutes and the Break duration to b minutes (5
\* when omitted) and starts a running Work interval of w minutes; these
\* durations serve every later start until the next custom submission.
C30_CustomSubmissionInstallsMinutes ==
    custom_result.outcome \in {"started", "panicked"} =>
        /\ custom_result.outcome = "started"
        /\ ~show_custom_input
        /\ ExactSecs(custom_result.work_mins, custom_result.work_secs)
        /\ IF custom_result.break_mins.some
           THEN ExactSecs(custom_result.break_mins.value,
                          custom_result.break_secs)
           ELSE U32Int(custom_result.break_secs) =
                    DefaultBreakMins * SecsPerMin

\* a digit string without its leading zeros
RECURSIVE StripZeros(_)
StripZeros(str) ==
    IF str # << >> /\ Head(str) = "0" THEN StripZeros(Tail(str)) ELSE str

\* 2^32 - 1 in decimal
MaxU32Digits == <<"4", "2", "9", "4", "9", "6", "7", "2", "9", "5">>

\* a <= b for digit strings of the same length
DigitsLeq(a, b) ==
    \/ a = b
    \/ \E i \in 1..Len(a) :
           /\ DigitValue(a[i]) < DigitValue(b[i])
           /\ \A j \in 1..(i - 1) : a[j] = b[j]

\* str is a decimal integer in 1..2^32-1
IsMinutes(str) ==
    /\ str # << >>
    /\ \A i \in 1..Len(str) : str[i] \in DigitChars
    /\ LET digits == StripZeros(str)
       IN  /\ digits # << >>
           /\ \/ Len(digits) < Len(MaxU32Digits)
              \/ /\ Len(digits) = Len(MaxU32Digits)
                 /\ DigitsLeq(digits, MaxU32Digits)

\* the parts of a string around its commas
RECURSIVE SplitAtCommas(_)
SplitAtCommas(str) ==
    IF \A i \in 1..Len(str) : str[i] # "," THEN << str >>
    ELSE LET k == CHOOSE i \in 1..Len(str) :
                      str[i] = "," /\ \A j \in 1..(i - 1) : str[j] # ","
         IN  << SubSeq(str, 1, k - 1) >>
                 \o SplitAtCommas(SubSeq(str, k + 1, Len(str)))

\* str has the form N or N,M
IsCustomInput(str) ==
    LET parts == SplitAtCommas(str)
    IN  /\ Len(parts) \in {1, 2}
        /\ \A i \in 1..Len(parts) : IsMinutes(parts[i])

\* the decimal digits of a u32
RECURSIVE DecimalOfU32(_)
DecimalOfU32(x) ==
    LET rest == (x[1] % 10) * U32Base + x[2]
        tenth == <<x[1] \div 10, rest \div 10>>
    IN  IF x[1] = 0 /\ x[2] < 10 THEN << Digits[x[2] + 1] >>
        ELSE Append(DecimalOfU32(tenth), Digits[(rest % 10) + 1])

\* C32: parse_custom_input accepts exactly the strings N and N,M with N and
\* M decimal integers in 1..2^32-1 and returns (N, None) or (N, Some(M));
\* every other string of digits and commas (a zero, an empty part, more than
\* one comma, a number beyond 32 bits) is rejected.
C32_ParseAcceptsExactlyMinutes ==
    show_custom_input =>
        LET result == ParseCustomInput(custom_input)
            parts == SplitAtCommas(custom_input)
        IN  /\ result.ok <=> IsCustomInput(custom_input)
            /\ result.ok =>
                   /\ DecimalOfU32(result.work_mins) = StripZeros(parts[1])
                   /\ result.break_mins.some <=> Len(parts) = 2
                   /\ result.break_mins.some =>
                          DecimalOfU32(result.break_mins.value) =
                              StripZeros(parts[2])

\* Enter was pressed on 2^32 and on nothing else: the text was rejected
C32_Witness ==
    /\ custom_result.outcome = "rejected"
    /\ show_custom_input
    /\ custom_input = <<"4", "2", "9", "4", "9", "6", "7", "2", "9", "6">>

\* what a rejected or empty submission must leave alone
SubmissionKept ==
    UNCHANGED <<current_session, mode, custom_work_duration,
                custom_break_duration, completed_sessions>>

\* C31: submitting an invalid custom string leaves the dialog open with the
\* typed text intact and leaves the session, the mode, the custom durations
\* and completed_sessions unchanged; submitting an empty string closes the
\* dialog and likewise leaves them unchanged.
C31_BadSubmissionChangesNothing ==
    [][key' = "enter" =>
          /\ (custom_input # << >> /\ ~IsCustomInput(custom_input)) =>
                 /\ show_custom_input'
                 /\ custom_input' = custom_input
                 /\ SubmissionKept
          /\ custom_input = << >> =>
                 /\ ~show_custom_input'
                 /\ SubmissionKept
      ]_vars

\* Enter was pressed on "1,," while a custom session was running in Manual
\* mode: the dialog still shows the text
C31_Witness ==
    /\ key = "enter"
    /\ show_custom_input
    /\ custom_input = <<"1", ",", ",">>
    /\ current_session.is_running
    /\ custom_work_duration # MinsToDuration(DefaultWorkMins)
    /\ mode = "Manual"

\* an animation that has just been built and started at instant t
FreshStarted(a, t) ==
    /\ a.started /\ a.start_time = t
    /\ a.animation_frame = 0
    /\ ~a.bricks_hit /\ ~a.tomato_hit /\ ~a.tomato_exploding
    /\ \A i \in 1..5 : a.bricks[i].visible
    /\ a.music_started

\* C33: the animation is started only by a Work completion or by M on the
\* main screen: a Break completion never sets show_mario_animation, and each
\* Work completion replaces the animation with a fresh started instance
\* before the next interval is started.
C33_AnimationOnlyFromWorkOrM ==
    [][/\ (~show_mario_animation /\ show_mario_animation') =>
              \/ key' = "m" /\ MainScreen
              \/ Completion /\ current_session.timer_type = "Work"
       /\ mario_animation'.start_time # mario_animation.start_time =>
              \/ key' = "m" /\ MainScreen
              \/ Completion /\ current_session.timer_type = "Work"
       /\ (Completion /\ current_session.timer_type = "Break") =>
              /\ show_mario_animation' => show_mario_animation
              /\ mario_animation'.start_time = mario_animation.start_time
       /\ (Completion /\ current_session.timer_type = "Work") =>
              /\ show_mario_animation'
              /\ FreshStarted(mario_animation', now')
              /\ current_session'.is_running =>
                     current_session'.start_time >=
                         mario_animation'.start_time
      ]_vars

\* a Work completion has replaced an animation that M had started before
C33_Witness ==
    /\ last_completed = "Work"
    /\ pc = "poll"
    /\ show_mario_animation
    /\ mario_animation.start_time = now
    /\ now > StepMillis
    /\ current_session.timer_type = "Break"
    /\ current_session.is_running

\* C34: for every accepted custom input the installed Work duration is
\* exactly work_mins * 60 seconds and the installed Break duration exactly
\* break_mins * 60 seconds, for every work_mins and break_mins in
\* 1..2^32-1, the product being the one the 32-bit unsigned arithmetic of
\* the code yields.
C34_InstalledSecondsAreProduct ==
    custom_result.outcome \in {"started", "panicked"} =>
        /\ custom_result.outcome = "started"
        /\ custom_result.work_secs =
               MulAddU32(custom_result.work_mins, SecsPerMin, 0).value
        /\ custom_result.break_mins.some =>
               custom_result.break_secs =
                   MulAddU32(custom_result.break_mins.value, SecsPerMin,
                             0).value

DialogChars == DigitChars \cup {","}

\* C36: the custom-input dialog is modal: while it is open no key starts,
\* pauses or resumes the session or toggles the mode, the session changes
\* only by Enter on a valid string, and custom_input holds ASCII digits and
\* commas only and is empty whenever the dialog is closed.
C36_DialogIsModal ==
    /\ [](/\ \A i \in 1..Len(custom_input) : custom_input[i] \in DialogChars
          /\ ~show_custom_input => custom_input = << >>)
    /\ [][(pc = "poll" /\ show_custom_input) =>
              /\ mode' = mode
              /\ pc' # "exited"
              /\ current_session' # current_session =>
                     /\ IsCustomInput(custom_input)
                     /\ ~show_custom_input'
                     /\ current_session'.timer_type = "Work"
      ]_vars

\* the dialog is open on a typed text while a session runs
C36_Witness ==
    /\ pc = "poll"
    /\ show_custom_input
    /\ custom_input = <<"1", ",", "1">>
    /\ current_session.is_running
    /\ current_session.timer_type = "Break"
    /\ now >= StepMillis

\* the cat has left the ground for its jump, or has already hit the bricks
Jumped(a) == a.cat_vy > 0 \/ a.cat_y > a.ground_y \/ a.bricks_hit

\* this step appends the sound effect `from` to the effects sink
EffectPlayed(from) ==
    \E i \in 1..Len(mario_animation'.sfx_sink.queue) :
        /\ mario_animation'.sfx_sink.queue[i].from = from
        /\ mario_animation'.sfx_sink.queue[i].at = now'
        /\ now' # now

\* C37: in a started animation driven by update() calls the stages happen in
\* order and once each: the cat jumps, then the bricks are hit (bricks_hit
\* becomes and stays true and every brick is invisible), then the tomato
\* falls to the ground and explodes (tomato_hit becomes and stays true); the
\* tomato never explodes before the bricks are hit, the explosion and each
\* sound effect happen at most once, the explosion is eventually reached,
\* and update() before start() changes nothing.
C37_StagesInOrderOnce ==
    /\ [](/\ mario_animation.tomato_hit => mario_animation.bricks_hit
          /\ mario_animation.tomato_hit = mario_animation.tomato_exploding
          /\ mario_animation.tomato_hit =>
                 mario_animation.tomato_y = mario_animation.ground_y + 10
          /\ mario_animation.bricks_hit =>
                 \A i \in 1..5 : ~mario_animation.bricks[i].visible
          /\ ~mario_animation.started => mario_animation.animation_frame = 0)
    /\ [][/\ Jumped(mario_animation) => Jumped(mario_animation')
          /\ mario_animation.bricks_hit => mario_animation'.bricks_hit
          /\ mario_animation.tomato_hit => mario_animation'.tomato_hit
          /\ (~mario_animation.bricks_hit /\ mario_animation'.bricks_hit) =>
                 /\ Jumped(mario_animation)
                 /\ ~mario_animation'.tomato_hit
          /\ (~mario_animation.tomato_hit /\ mario_animation'.tomato_hit) =>
                 mario_animation.bricks_hit
          /\ EffectPlayed("jump") =>
                 ~Jumped(mario_animation) /\ Jumped(mario_animation')
          /\ EffectPlayed("brick") =>
                 ~mario_animation.bricks_hit /\ mario_animation'.bricks_hit
          /\ EffectPlayed("powerup") =>
                 ~mario_animation.tomato_hit /\ mario_animation'.tomato_hit
          /\ (~mario_animation.started /\ now' # now) =>
                 mario_animation' = mario_animation
      ]_vars
    /\ (mario_animation.started ~> mario_animation.tomato_hit)

\* the tomato has exploded on the ground of an animation with sinks that was
\* started after an update() call, the power-up effect being queued
C37_Witness ==
    /\ mario_animation.tomato_hit
    /\ mario_animation.bricks_hit
    /\ mario_animation.has_sinks
    /\ mario_animation.start_time > 0
    /\ mario_animation.sfx_sink.queue # << >>
    /\ Head(mario_animation.sfx_sink.queue).from = "powerup"
    /\ mario_animation.animation_frame < MaxFrames

\* C38: from the never-started state of PomodoroTimer::new the first toggle
\* (Space or Enter), which resumes, starts the default 25-minute Work
\* interval running with elapsed 0; and a session that was paused when its
\* elapsed time had already reached its duration completes on the first
\* completion check after it is resumed.
C38_FirstToggleStartsAndLateResumeCompletes ==
    [][/\ (pc = "poll" /\ key' = "toggle" /\ current_session = NewSession) =>
              /\ current_session' =
                     StartTimer("Work", MinsToDuration(DefaultWorkMins), now')
              /\ GetTimerProgress(current_session', now') = 0
       /\ (/\ pc = "update"
           /\ key = "toggle"
           /\ current_session.is_running
           /\ current_session.start_time = now
           /\ current_session.elapsed >= current_session.duration) =>
              /\ Completion
              /\ last_completed' = current_session.timer_type
      ]_vars

\* a Work session that was paused at its deadline and resumed has been
\* completed in Manual mode, which leaves its elapsed time in place
C38_Witness ==
    /\ pc = "poll"
    /\ last_completed = "Work"
    /\ completed_sessions = 1
    /\ mode = "Manual"
    /\ ~current_session.is_running
    /\ current_session.elapsed >= current_session.duration

====
